---- MODULE Spec2Model ----
(***************************************************************************)
(* Model of census_income_demo.py (keras-mmoe):                            *)
(*   - the timed evaluation loop of main()            (Spec, FairSpec)     *)
(*   - data_preparation(), tower construction and fit (PrepSpec)           *)
(*   - ROCCallback.on_epoch_end                       (ROCSpec)            *)
(* Wall-clock time is an integer clock that never runs backwards; a        *)
(* quotient of two numbers is kept as the exact fraction [num, den]        *)
(* (floating-point rounding is not modelled).  A local that is not yet     *)
(* bound holds 0 (numbers) or <<>> (latency, throughput) until the         *)
(* statement that binds it.                                                *)
(***************************************************************************)
EXTENDS Integers, Sequences, FiniteSets

\* ---------------------------------------------------------------- bounds
MaxRowsEval == 3    \* len(test_data) ranges over 0..MaxRowsEval
MaxBatch == 2       \* args.batch_size ranges over 1..MaxBatch
MaxCap == 2         \* args.num_iter ranges over 0..MaxCap
MaxEpochs == 3      \* args.epochs ranges over 0..MaxEpochs
MaxWarmup == 3      \* args.num_warmup ranges over 0..MaxWarmup
MaxTick == 1        \* one model.evaluate call takes 0..MaxTick clock ticks
MaxRows == 5        \* nrows of the csv read ranges over 1..MaxRows

\* ------------------------------------------------------------- variables
VARIABLES
    \* main(): evaluation loop
    pc, len_test_data, batch_size, args_num_iter, epochs, num_warmup, tensorboard,
    num_iter, i, steps, now, start_time, end_time, total_time, total_sample,
    profiler, latency, throughput,
    starts, ends, iters, credited, events,
    \* data_preparation() and the model construction / fit in main()
    ppc, nrows, train, train_rows, other_rows, output_info,
    validation_data, test_data, train_data,
    validation_label, test_label, train_label,
    output_layers, fit_x, fit_y, fit_validation,
    \* ROCCallback.on_epoch_end
    rpc, single_class, index, train_roc_auc, validation_roc_auc, test_roc_auc, printed

hvars == <<pc, len_test_data, batch_size, args_num_iter, epochs, num_warmup, tensorboard,
           num_iter, i, steps, now, start_time, end_time, total_time, total_sample,
           profiler, latency, throughput, starts, ends, iters, credited, events>>
pvars == <<ppc, nrows, train, train_rows, other_rows, output_info,
           validation_data, test_data, train_data,
           validation_label, test_label, train_label,
           output_layers, fit_x, fit_y, fit_validation>>
rvars == <<rpc, single_class, index, train_roc_auc, validation_roc_auc, test_roc_auc, printed>>
vars == <<hvars, pvars, rvars>>

None == "None"

\* ------------------------------------------------------------ idle parts
HarnessIdle ==
    /\ pc = "idle" /\ len_test_data = 0 /\ batch_size = 1 /\ args_num_iter = 0
    /\ epochs = 0 /\ num_warmup = 0 /\ tensorboard = FALSE
    /\ num_iter = 0 /\ i = 0 /\ steps = 0 /\ now = 0
    /\ start_time = 0 /\ end_time = 0 /\ total_time = 0 /\ total_sample = 0
    /\ profiler = "off" /\ latency = <<>> /\ throughput = <<>>
    /\ starts = <<>> /\ ends = <<>> /\ iters = <<>> /\ credited = <<>> /\ events = <<>>

PrepIdle ==
    /\ ppc = "idle" /\ nrows = 0 /\ train = FALSE
    /\ train_rows = {} /\ other_rows = {} /\ output_info = <<>>
    /\ validation_data = {} /\ test_data = {} /\ train_data = {}
    /\ validation_label = <<>> /\ test_label = <<>> /\ train_label = <<>>
    /\ output_layers = <<>> /\ fit_x = {} /\ fit_y = <<>> /\ fit_validation = {}

ROCIdle ==
    /\ rpc = "idle" /\ single_class = <<>> /\ index = 0
    /\ train_roc_auc = None /\ validation_roc_auc = None /\ test_roc_auc = None
    /\ printed = {}

\* ===================================================== evaluation harness
Min(a, b) == IF a < b THEN a ELSE b

Max(a, b) == IF a > b THEN a ELSE b

\* bug variants of NumIter: max for min; a rounded-up quotient; no cap
NumIterMax(n, b, c) == Max(n \div b, c)
NumIterCeil(n, b, c) == Min((n + b - 1) \div b, c)
NumIterNoCap(n, b, c) == n \div b

\* int(len(test_data) / args.batch_size); min(num_iter, args.num_iter)
NumIter(n, b, c) == Min(n \div b, c)

\* if i > args.num_warmup
Included(k, w) == k > w

\* bug variant of Elapsed: the start timestamp is not subtracted
ElapsedNoStart(s, e) == e

\* end_time - start_time
Elapsed(s, e) == e - s

\* num_iter * args.batch_size
Samples(it, b) == it * b

\* total_time / total_sample * 1000, kept as an exact fraction
Latency(t, s) == [num |-> t * 1000, den |-> s]

\* total_sample / total_time, kept as an exact fraction
Throughput(t, s) == [num |-> s, den |-> t]

InitHarness ==
    /\ pc = "setup"
    /\ len_test_data \in 0..MaxRowsEval
    /\ batch_size \in 1..MaxBatch
    /\ args_num_iter \in 0..MaxCap
    /\ epochs \in 0..MaxEpochs
    /\ num_warmup \in 0..MaxWarmup
    /\ tensorboard \in BOOLEAN
    /\ num_iter = 0 /\ i = 0 /\ steps = 0 /\ now = 0
    /\ start_time = 0 /\ end_time = 0 /\ total_time = 0 /\ total_sample = 0
    /\ profiler = "off" /\ latency = <<>> /\ throughput = <<>>
    /\ starts = <<>> /\ ends = <<>> /\ iters = <<>> /\ credited = <<>> /\ events = <<>>

\* lines 262-266: the accumulators, the iteration count, the loop variable
Setup ==
    /\ pc = "setup"
    /\ total_time' = 0
    /\ total_sample' = 0
    /\ num_iter' = NumIter(len_test_data, batch_size, args_num_iter)
    /\ i' = 0
    /\ pc' = "loop"
    /\ UNCHANGED <<pvars, rvars, len_test_data, batch_size, args_num_iter, epochs, num_warmup, tensorboard,
                   steps, now, start_time, end_time, profiler, latency, throughput,
                   starts, ends, iters, credited, events>>

\* bug variant of StartTime: the timestamp of the first repetition is kept
StartTimeStale == IF starts = <<>> THEN now ELSE starts[1]

\* start_time = time.time()
StartTime == now

\* lines 266-271: loop test, optional profiler start, start timestamp
BeginRepetition ==
    /\ pc = "loop"
    /\ i < epochs
    /\ profiler' = IF tensorboard /\ i = epochs \div 2 THEN "on" ELSE profiler
    /\ start_time' = StartTime
    /\ starts' = Append(starts, start_time')
    /\ events' = Append(events, <<"start", i>>)
    /\ steps' = 0
    /\ pc' = "evaluate"
    /\ UNCHANGED <<pvars, rvars, len_test_data, batch_size, args_num_iter, epochs, num_warmup, tensorboard,
                   num_iter, i, now, end_time, total_time, total_sample, latency, throughput,
                   ends, iters, credited>>

\* line 272: one evaluation step of model.evaluate(steps=num_iter, ...)
EvaluateStep ==
    /\ pc = "evaluate"
    /\ steps < num_iter
    /\ steps' = steps + 1
    /\ UNCHANGED <<pvars, rvars, pc, len_test_data, batch_size, args_num_iter, epochs, num_warmup, tensorboard,
                   num_iter, i, now, start_time, end_time, total_time, total_sample,
                   profiler, latency, throughput, starts, ends, iters, credited, events>>

\* line 272: model.evaluate returns after num_iter steps; the clock has moved on
EvaluateReturn ==
    /\ pc = "evaluate"
    /\ steps = num_iter
    /\ \E d \in 0..MaxTick : now' = now + d
    /\ iters' = Append(iters, steps)
    /\ events' = Append(events, <<"evaluate", i>>)
    /\ pc' = "timed"
    /\ UNCHANGED <<pvars, rvars, len_test_data, batch_size, args_num_iter, epochs, num_warmup, tensorboard,
                   num_iter, i, steps, start_time, end_time, total_time, total_sample,
                   profiler, latency, throughput, starts, ends, credited>>

\* lines 273-280: end timestamp, accumulation past the warm-up, profiler stop
EndRepetition ==
    /\ pc = "timed"
    /\ end_time' = now
    /\ ends' = Append(ends, end_time')
    /\ events' = Append(events, <<"end", i>>)
    /\ IF Included(i, num_warmup)
       THEN /\ total_time' = total_time + Elapsed(start_time, end_time')
            /\ total_sample' = total_sample + Samples(num_iter, batch_size)
            /\ credited' = Append(credited, [included |-> TRUE, samples |-> Samples(num_iter, batch_size)])
       ELSE /\ UNCHANGED <<total_time, total_sample>>
            /\ credited' = Append(credited, [included |-> FALSE, samples |-> 0])
    /\ profiler' = IF tensorboard /\ i = epochs \div 2 THEN "stopped" ELSE profiler
    /\ i' = i + 1
    /\ pc' = "loop"
    /\ UNCHANGED <<pvars, rvars, len_test_data, batch_size, args_num_iter, epochs, num_warmup, tensorboard,
                   num_iter, steps, now, start_time, latency, throughput, starts, iters>>

\* line 266: range(args.epochs) is exhausted
LoopExit ==
    /\ pc = "loop"
    /\ i >= epochs
    /\ pc' = "latency"
    /\ UNCHANGED <<pvars, rvars, len_test_data, batch_size, args_num_iter, epochs, num_warmup, tensorboard,
                   num_iter, i, steps, now, start_time, end_time, total_time, total_sample,
                   profiler, latency, throughput, starts, ends, iters, credited, events>>

\* lines 281-282: latency = total_time / total_sample * 1000
ReportLatency ==
    /\ pc = "latency"
    /\ IF total_sample = 0
       THEN pc' = "ZeroDivisionError" /\ UNCHANGED latency
       ELSE pc' = "throughput" /\ latency' = <<Latency(total_time, total_sample)>>
    /\ UNCHANGED <<pvars, rvars, len_test_data, batch_size, args_num_iter, epochs, num_warmup, tensorboard,
                   num_iter, i, steps, now, start_time, end_time, total_time, total_sample,
                   profiler, throughput, starts, ends, iters, credited, events>>

\* lines 283-285: throughput = total_sample / total_time
ReportThroughput ==
    /\ pc = "throughput"
    /\ IF total_time = 0
       THEN pc' = "ZeroDivisionError" /\ UNCHANGED throughput
       ELSE pc' = "done" /\ throughput' = <<Throughput(total_time, total_sample)>>
    /\ UNCHANGED <<pvars, rvars, len_test_data, batch_size, args_num_iter, epochs, num_warmup, tensorboard,
                   num_iter, i, steps, now, start_time, end_time, total_time, total_sample,
                   profiler, latency, starts, ends, iters, credited, events>>

Init == InitHarness /\ PrepIdle /\ ROCIdle

Next ==
    \/ Setup
    \/ BeginRepetition
    \/ EvaluateStep
    \/ EvaluateReturn
    \/ EndRepetition
    \/ LoopExit
    \/ ReportLatency
    \/ ReportThroughput

Spec == Init /\ [][Next]_vars

\* main() is one sequential thread: a step that can be taken is taken
FairSpec == Spec /\ WF_vars(Next)

\* ============================== data_preparation, towers and fit in main()
\* the csv files read (line 98 is commented out: both frames read the test file)
TrainFile == "data/census-income.test.gz"
OtherFile == "data/census-income.test.gz"

\* the rows 0..n-1 of a file; an example is the pair <<file, row>>
ReadCsv(file, n) == {<<file, r>> : r \in 0..(n - 1)}

\* the task names 'income' and 'marital' as code points
income == <<105, 110, 99, 111, 109, 101>>
marital == <<109, 97, 114, 105, 116, 97, 108>>

\* to_categorical(..., num_classes=2)
NumClasses == 2

\* the keys of dict_outputs, dict_train_labels, dict_other_labels, as written
DictKeys == <<income, marital>>

\* dict_outputs: key -> train_<key>.shape[1]
dict_outputs == [key \in {income, marital} |-> NumClasses]

\* Python's order on strings: by code point, a proper prefix first
RECURSIVE StrLess(_, _)
StrLess(a, b) ==
    IF b = <<>> THEN FALSE
    ELSE IF a = <<>> THEN TRUE
    ELSE IF a[1] # b[1] THEN a[1] < b[1]
    ELSE StrLess(Tail(a), Tail(b))

RECURSIVE Insert(_, _)
Insert(x, s) ==
    IF s = <<>> THEN <<x>>
    ELSE IF StrLess(x, s[1]) THEN <<x>> \o s
    ELSE <<s[1]>> \o Insert(x, Tail(s))

\* sorted(d.keys())
RECURSIVE sorted(_)
sorted(keys) == IF keys = <<>> THEN <<>> ELSE Insert(keys[1], sorted(Tail(keys)))

\* round(), to the even neighbour at a half: round(0.5 * n)
RoundHalf(n) ==
    IF n % 2 = 0 THEN n \div 2
    ELSE IF (n \div 2) % 2 = 0 THEN n \div 2 ELSE n \div 2 + 1

\* [dict_labels[key][indices] for key in sorted(dict_labels.keys())]
LabelList(rows) == [k \in 1..Len(DictKeys) |-> [task |-> sorted(DictKeys)[k], rows |-> rows]]

\* MMoE(units=4, num_experts=8, num_tasks=2): one output per task
NumTasks == 2

\* bug variant of TowerHead: the heads are named from the end of output_info
TowerHeadReversed(idx) ==
    [units |-> output_info[Len(output_info) - idx][1],
     name |-> output_info[Len(output_info) - idx][2]]

\* Dense(units=output_info[index][0], name=output_info[index][1], ...)
TowerHead(idx) ==
    [units |-> output_info[idx + 1][1], name |-> output_info[idx + 1][2]]

InitPrep ==
    /\ ppc = "read"
    /\ nrows \in 1..MaxRows
    /\ train \in BOOLEAN
    /\ train_rows = {} /\ other_rows = {} /\ output_info = <<>>
    /\ validation_data = {} /\ test_data = {} /\ train_data = {}
    /\ validation_label = <<>> /\ test_label = <<>> /\ train_label = <<>>
    /\ output_layers = <<>> /\ fit_x = {} /\ fit_y = <<>> /\ fit_validation = {}

\* lines 97-113: the two frames
LoadData ==
    /\ ppc = "read"
    /\ train_rows' = ReadCsv(TrainFile, nrows)
    /\ other_rows' = ReadCsv(OtherFile, nrows)
    /\ ppc' = "outputs"
    /\ UNCHANGED <<hvars, rvars, nrows, train, output_info, validation_data, test_data,
                   train_data, validation_label, test_label, train_label,
                   output_layers, fit_x, fit_y, fit_validation>>

\* lines 139-151: output_info, by sorted task name
BuildOutputInfo ==
    /\ ppc = "outputs"
    /\ output_info' = [k \in 1..Len(DictKeys) |->
                          <<dict_outputs[sorted(DictKeys)[k]], sorted(DictKeys)[k]>>]
    /\ ppc' = "split"
    /\ UNCHANGED <<hvars, rvars, nrows, train, train_rows, other_rows, validation_data,
                   test_data, train_data, validation_label, test_label, train_label,
                   output_layers, fit_x, fit_y, fit_validation>>

\* lines 154-163: the sampled half is validation, the rest is test
SplitData ==
    /\ ppc = "split"
    /\ \E validation_indices \in SUBSET other_rows :
           /\ Cardinality(validation_indices) = RoundHalf(nrows)
           /\ validation_data' = validation_indices
           /\ test_data' = other_rows \ validation_indices
           /\ validation_label' = LabelList(validation_indices)
           /\ test_label' = LabelList(other_rows \ validation_indices)
    /\ train_data' = train_rows
    /\ train_label' = LabelList(train_rows)
    /\ ppc' = "towers"
    /\ UNCHANGED <<hvars, rvars, nrows, train, train_rows, other_rows, output_info,
                   output_layers, fit_x, fit_y, fit_validation>>

\* lines 211-221: one tower and one output layer per MMoE output
BuildTower ==
    /\ ppc = "towers"
    /\ Len(output_layers) < NumTasks
    /\ output_layers' = Append(output_layers, TowerHead(Len(output_layers)))
    /\ UNCHANGED <<hvars, rvars, ppc, nrows, train, train_rows, other_rows, output_info,
                   validation_data, test_data, train_data,
                   validation_label, test_label, train_label, fit_x, fit_y, fit_validation>>

\* lines 224-233: Model(...), compile, summary
Compile ==
    /\ ppc = "towers"
    /\ Len(output_layers) = NumTasks
    /\ ppc' = "fit"
    /\ UNCHANGED <<hvars, rvars, nrows, train, train_rows, other_rows, output_info,
                   validation_data, test_data, train_data,
                   validation_label, test_label, train_label,
                   output_layers, fit_x, fit_y, fit_validation>>

\* lines 236-252: model.fit(x=validation_data, y=validation_label,
\* validation_data=(validation_data, validation_label)) under --train
Fit ==
    /\ ppc = "fit"
    /\ IF train
       THEN /\ fit_x' = validation_data
            /\ fit_y' = validation_label
            /\ fit_validation' = validation_data
       ELSE UNCHANGED <<fit_x, fit_y, fit_validation>>
    /\ ppc' = "done"
    /\ UNCHANGED <<hvars, rvars, nrows, train, train_rows, other_rows, output_info,
                   validation_data, test_data, train_data,
                   validation_label, test_label, train_label, output_layers>>

NextPrep ==
    \/ LoadData
    \/ BuildOutputInfo
    \/ SplitData
    \/ BuildTower
    \/ Compile
    \/ Fit

PrepInit == HarnessIdle /\ InitPrep /\ ROCIdle

PrepSpec == PrepInit /\ [][NextPrep]_vars

\* ============================================ ROCCallback.on_epoch_end
Splits == {"train", "validation", "test"}

\* roc_auc_score(y_true, y_score): a score, or ValueError when y_true holds
\* one class only
roc_auc_score(idx, split) == IF single_class[idx][split] THEN "ValueError" ELSE "auc"

InitROC ==
    /\ rpc = "predict"
    /\ single_class \in [0..(NumTasks - 1) -> [Splits -> BOOLEAN]]
    /\ index = 0
    /\ train_roc_auc = None /\ validation_roc_auc = None /\ test_roc_auc = None
    /\ printed = {}

\* lines 59-64: the three predictions, then the loop over model.output_names
Predict ==
    /\ rpc = "predict"
    /\ index' = 0
    /\ rpc' = "train"
    /\ UNCHANGED <<hvars, pvars, single_class, train_roc_auc, validation_roc_auc,
                   test_roc_auc, printed>>

\* line 65
ScoreTrain ==
    /\ rpc = "train"
    /\ IF roc_auc_score(index, "train") = "ValueError"
       THEN rpc' = "ValueError" /\ UNCHANGED train_roc_auc
       ELSE rpc' = "validation" /\ train_roc_auc' = roc_auc_score(index, "train")
    /\ UNCHANGED <<hvars, pvars, single_class, index, validation_roc_auc, test_roc_auc, printed>>

\* line 66
ScoreValidation ==
    /\ rpc = "validation"
    /\ IF roc_auc_score(index, "validation") = "ValueError"
       THEN rpc' = "ValueError" /\ UNCHANGED validation_roc_auc
       ELSE rpc' = "test" /\ validation_roc_auc' = roc_auc_score(index, "validation")
    /\ UNCHANGED <<hvars, pvars, single_class, index, train_roc_auc, test_roc_auc, printed>>

\* line 67
ScoreTest ==
    /\ rpc = "test"
    /\ IF roc_auc_score(index, "test") = "ValueError"
       THEN rpc' = "ValueError" /\ UNCHANGED test_roc_auc
       ELSE rpc' = "print" /\ test_roc_auc' = roc_auc_score(index, "test")
    /\ UNCHANGED <<hvars, pvars, single_class, index, train_roc_auc, validation_roc_auc, printed>>

\* lines 68-74: one line with the task's three scores, then the next task
PrintScores ==
    /\ rpc = "print"
    /\ printed' = printed \cup {<<index, s>> : s \in Splits}
    /\ IF index + 1 < NumTasks
       THEN index' = index + 1 /\ rpc' = "train"
       ELSE UNCHANGED index /\ rpc' = "return"
    /\ UNCHANGED <<hvars, pvars, single_class, train_roc_auc, validation_roc_auc, test_roc_auc>>

\* line 76
Return ==
    /\ rpc = "return"
    /\ rpc' = "returned"
    /\ UNCHANGED <<hvars, pvars, single_class, index, train_roc_auc, validation_roc_auc,
                   test_roc_auc, printed>>

NextROC ==
    \/ Predict
    \/ ScoreTrain
    \/ ScoreValidation
    \/ ScoreTest
    \/ PrintScores
    \/ Return

ROCInit == HarnessIdle /\ PrepIdle /\ InitROC

ROCSpec == ROCInit /\ [][NextROC]_vars

\* ------------------------------------------------- harness: properties
AfterLoop == pc \in {"latency", "throughput", "done", "ZeroDivisionError"}

RECURSIVE SumSeq(_)
SumSeq(s) == IF s = <<>> THEN 0 ELSE s[1] + SumSeq(Tail(s))

\* the repetitions (1-based) whose duration and samples were accumulated
Credited == {k \in 1..Len(credited) : credited[k].included}

\* C1: past the setup, num_iter = min(cap, floor(n / b)), floor(n / b) being
\* the q with q*b <= n < (q+1)*b, and every evaluate call ran exactly that
\* many steps.
C1_IterationCount ==
    pc # "setup" =>
        \E q \in 0..len_test_data :
            /\ q * batch_size <= len_test_data
            /\ len_test_data < (q + 1) * batch_size
            /\ num_iter = (IF args_num_iter < q THEN args_num_iter ELSE q)
            /\ \A k \in 1..Len(iters) : iters[k] = num_iter

\* a run where the dataset, not the cap, bounds the count (3 rows, batch 1, cap 2
\* is the other way round; here 3 rows, batch 2, cap 2 gives 1)
C1_Witness ==
    /\ pc = "done" /\ Len(iters) = 3
    /\ len_test_data = 3 /\ batch_size = 2 /\ args_num_iter = 2 /\ num_iter = 1

\* C2: with 0 <= warm_up < epochs, exactly epochs - warm_up repetitions are
\* accumulated: the first warm_up are excluded, every later one is included.
C2_ContributingRepetitions ==
    (AfterLoop /\ num_warmup < epochs) =>
        /\ Cardinality(Credited) = epochs - num_warmup
        /\ \A k \in 1..Len(credited) : (k \in Credited) <=> (k > num_warmup)

\* C3: when no repetition was accumulated the harness fails with
\* DegenerateAggregate: no division by zero, no latency, no throughput.
C3_DegenerateAggregate ==
    (AfterLoop /\ Credited = {}) =>
        /\ pc # "ZeroDivisionError"
        /\ latency = <<>> /\ throughput = <<>>
        /\ pc # "latency" => pc = "DegenerateAggregate"

\* C4: after the loop total_time is the sum of the accumulated repetitions'
\* durations and total_sample the sum of their iteration count * batch size;
\* a reported latency is total_time / total_sample * 1000 and a reported
\* throughput total_sample / total_time.
C4_Aggregates ==
    AfterLoop =>
        /\ Len(starts) = epochs /\ Len(ends) = epochs /\ Len(credited) = epochs
        /\ total_time = SumSeq([k \in 1..epochs |->
                                   IF k \in Credited THEN ends[k] - starts[k] ELSE 0])
        /\ total_sample = SumSeq([k \in 1..epochs |->
                                   IF k \in Credited THEN iters[k] * batch_size ELSE 0])
        /\ latency # <<>> =>
               /\ latency[1].num = 1000 * total_time
               /\ latency[1].den = total_sample
        /\ throughput # <<>> =>
               /\ throughput[1].num = total_sample
               /\ throughput[1].den = total_time

\* a finished run with an excluded repetition that took time and ran steps
C4_Witness ==
    /\ pc = "done" /\ Credited # {}
    /\ \E k \in 1..Len(credited) :
           k \notin Credited /\ ends[k] > starts[k] /\ iters[k] > 0
    /\ \E k \in Credited : starts[k] > 0

\* C6: the operations happen in the order start 0, evaluate 0, end 0,
\* start 1, ...: one evaluation between a repetition's two timestamps, and the
\* next start timestamp is not before the previous end timestamp.
C6_Sequential ==
    /\ \A p \in 1..Len(events) :
           events[p] = << <<"start", "evaluate", "end">>[((p - 1) % 3) + 1], (p - 1) \div 3 >>
    /\ \A k \in 1..Len(ends) :
           /\ starts[k] <= ends[k]
           /\ k < Len(starts) => ends[k] <= starts[k + 1]

\* two repetitions that both took time have been timed
C6_Witness ==
    /\ Len(ends) >= 2 /\ Len(starts) >= 3
    /\ ends[1] > starts[1] /\ ends[2] > starts[2]

\* C7: the run reaches the aggregate report (line 281), and when it does,
\* exactly `epochs` repetitions have run, none with more than the cap's steps,
\* at most epochs * cap steps in all.
C7_Termination ==
    /\ <>AfterLoop
    /\ [](AfterLoop =>
            /\ i = epochs /\ Len(iters) = epochs /\ Len(ends) = epochs
            /\ \A k \in 1..Len(iters) : iters[k] <= args_num_iter
            /\ SumSeq(iters) <= epochs * args_num_iter)

\* the report is reached with the cap, not the dataset, bounding each repetition
C7_Witness ==
    /\ pc = "latency" /\ epochs = 3 /\ Len(iters) = 3
    /\ len_test_data \div batch_size > args_num_iter /\ args_num_iter > 0

\* C10: every repetition runs the iteration count computed before the loop,
\* and the samples credited to an included repetition, iteration count *
\* batch size, are at most the dataset's rows, 0 when the batch is larger
\* than the dataset.
C10_SampleCount ==
    /\ \A k \in 1..Len(iters) : iters[k] = num_iter /\ iters[k] = iters[1]
    /\ \A k \in Credited :
           /\ credited[k].samples = iters[k] * batch_size
           /\ credited[k].samples <= len_test_data
           /\ batch_size > len_test_data => credited[k].samples = 0

\* included repetitions, one run with a batch larger than the dataset
C10_Witness ==
    /\ Cardinality(Credited) >= 2
    /\ batch_size > len_test_data /\ args_num_iter > 0

\* ---------------------------------- preparation and reporter: properties
\* C5: when on_epoch_end is over, every task/split whose labels hold both
\* classes has had its ROC-AUC printed, whatever the other labels were.
C5_PartialFailure ==
    rpc \in {"returned", "ValueError"} =>
        \A t \in 0..(NumTasks - 1) : \A s \in Splits :
            ~single_class[t][s] => <<t, s>> \in printed

\* C8: output_info is sorted by task name; the i-th head has the i-th entry's
\* name and cardinality; the i-th train, validation and test label arrays are
\* that task's.
C8_TaskOrder ==
    /\ \A k \in 1..(Len(output_info) - 1) : StrLess(output_info[k][2], output_info[k + 1][2])
    /\ \A k \in 1..Len(output_layers) :
           /\ output_layers[k].name = output_info[k][2]
           /\ output_layers[k].units = dict_outputs[output_info[k][2]]
           /\ train_label[k].task = output_layers[k].name
           /\ validation_label[k].task = output_layers[k].name
           /\ test_label[k].task = output_layers[k].name
    /\ ppc \in {"fit", "done"} =>
           /\ Len(output_layers) = Len(output_info)
           /\ Len(train_label) = Len(output_layers)
           /\ Len(validation_label) = Len(output_layers)
           /\ Len(test_label) = Len(output_layers)
    /\ train => \A k \in 1..Len(fit_y) : fit_y[k].task = output_layers[k].name

\* the model was built and fitted, both heads in place
C8_Witness ==
    /\ ppc = "done" /\ train /\ Len(output_layers) = 2 /\ Len(fit_y) = 2
    /\ output_layers[1].name = income /\ output_layers[2].name = marital

\* C9: train, validation and test are pairwise disjoint, and the examples
\* the model was fitted on are in neither the validation nor the test set.
C9_DisjointSplits ==
    ppc = "done" =>
        /\ validation_data \cap test_data = {}
        /\ train_data \cap validation_data = {}
        /\ train_data \cap test_data = {}
        /\ fit_x \cap validation_data = {}
        /\ fit_x \cap test_data = {}

====
